---- MODULE Spec2Model ----
(***************************************************************************)
(* Model of roboflow-inference/src/client/udp_client.py (class UDPClient): *)
(* the adaptive JPEG search of send_frame, the datagram socket, and the    *)
(* rolling metrics.  A payload is modelled by its length, a frame by its   *)
(* shape, a float by an exact integer or fraction <<num, den>>.            *)
(***************************************************************************)
EXTENDS Integers, Sequences, FiniteSets, TLC

\* ------------------------------------------------------------------ bounds
MaxPayloadLen == 2      \* payload lengths the codec can produce: 1..MaxPayloadLen
MaxProcessTime == 1     \* process_time samples: 0..MaxProcessTime
MaxSends == 1           \* successful sends explored from a fresh client
MaxSockets == 2         \* sockets the OS hands out
MaxInbox == 1           \* datagrams queued at the client's socket
RingSends == 1          \* successful sends explored from the warm start

\* ------------------------------------------------------- program constants
RingCapacity == 100     \* deque(maxlen=100)
QualityStep == 5        \* current_quality -= 5
ScaleOne == 1000000     \* scale_factor = 1.0, in units of 10^-6
ScaleFloor == 300000    \* scale_factor > 0.3
DecayNum == 8           \* scale_factor *= 0.8
DecayDen == 10
None == 0               \* self.socket = None
DefaultHost == "localhost"
DefaultPort == 5000
NoData == 0             \* len(b"")

VARIABLES
  \* configuration (UDPClient.__init__ arguments)
  host, port, buffer_size, initial_jpeg_quality, min_jpeg_quality, target_size,
  \* the socket handle, the sockets the OS created, the held socket's queue
  socket, sockets, inbox,
  \* metrics
  frame_sizes, compression_rates, frame_times, frames_sent, bytes_sent,
  \* the running call: position and send_frame's locals
  pc, original_size, current_frame, current_quality, scale_factor, success, data,
  \* what the last finished call returned
  ret,
  \* history: the attempts made at the current scale, lengths handed to sendto in
  \* this call, the samples of every datagram sendto accepted, and the number
  \* of successful sends the exploration allows
  tried, sendto_log, sent_log, send_limit,
  \* InferenceClient: its flag, the capture handle, the position of
  \* process_frame and its local frame, the latest results, what the last
  \* finished call returned, and (history) the calls made in the current cycle
  \* and whether a datagram was already queued when it began
  is_running, cap, cycle, frame, latest_predictions, latest_metrics, app_ret, events,
  had_backlog

config == <<host, port, buffer_size, initial_jpeg_quality, min_jpeg_quality, target_size>>
metrics == <<frame_sizes, compression_rates, frame_times, frames_sent, bytes_sent>>
locals == <<original_size, current_frame, current_quality, scale_factor, success, data>>
app == <<is_running, cap, cycle, frame, latest_predictions, latest_metrics, app_ret, events,
         had_backlog>>
vars == <<config, socket, sockets, inbox, metrics, pc, locals, ret, tried,
          sendto_log, sent_log, send_limit, app>>

\* ------------------------------------------------------------ input sets
BufferSizes == {0, 1}
QualityPairs == {<<40, 30>>, <<30, 45>>}              \* <<initial, min>>
TargetSizes == {<<>>, <<4, 3>>}                        \* (width, height); <<>> is None
Frames == {<<240, 320, 3>>, <<320, 240, 3>>}           \* frame.shape: (height, width, channels)
PayloadLens == 1..MaxPayloadLen
Times == 0..MaxProcessTime
\* what a datagram holds: a JSON object with a predictions list, bytes that
\* are not UTF-8 JSON, a JSON object without the key, a JSON number
ReplyKinds == {"predictions", "not_json", "no_key", "number"}
Replies == {[kind |-> k, len |-> 1] : k \in ReplyKinds}

NoFrame == <<>>
Pending == [op |-> "none", val |-> "none"]
Returned(op, val) == [op |-> op, val |-> val]

\* ------------------------------------------------------------- helpers
\* sum(s[lo..hi]), by halves to keep the evaluation shallow
RECURSIVE SumRange(_, _, _)
SumRange(s, lo, hi) ==
  IF lo > hi THEN 0
  ELSE IF lo = hi THEN s[lo]
  ELSE LET mid == (lo + hi) \div 2 IN SumRange(s, lo, mid) + SumRange(s, mid + 1, hi)

\* sum(s)
SumSeq(s) == SumRange(s, 1, Len(s))

Min(a, b) == IF a <= b THEN a ELSE b

\* the last n elements of s
LastN(s, n) == SubSeq(s, Len(s) - Min(n, Len(s)) + 1, Len(s))

\* faulty variant: a full deque drops its newest entry
DequeAppendDropsNewest(q, x) ==
  IF Len(q) < RingCapacity THEN Append(q, x) ELSE Append(SubSeq(q, 1, Len(q) - 1), x)

\* deque(maxlen=100).append(x): a full deque drops its oldest entry
DequeAppend(q, x) ==
  IF Len(q) < RingCapacity THEN Append(q, x) ELSE Append(Tail(q), x)

\* faulty variant: the quality goes down by one less than the step
NextQualityShortStep(q) == q - (QualityStep - 1)

\* current_quality -= 5
NextQuality(q) == q - QualityStep

\* while current_quality >= self.min_jpeg_quality
InnerLoopRuns(q) == q >= min_jpeg_quality

\* while not success and scale_factor > 0.3
OuterLoopRuns(succ, s) == ~succ /\ s > ScaleFloor

\* faulty variant: a payload of exactly buffer_size bytes is taken as too large
FitsStrictly(len) == len < buffer_size

\* len(data) <= self.buffer_size
Fits(len) == len <= buffer_size

\* faulty variant: the scale goes down by a tenth
ScaleDecaySlow(s) == (s * (DecayNum + 1)) \div DecayDen

\* scale_factor *= 0.8
ScaleDecay(s) == (s * DecayNum) \div DecayDen

\* (int(frame.shape[1] * scale_factor), int(frame.shape[0] * scale_factor)),
\* as the shape of the resized frame
NewShape(f, s) == <<(f[1] * s) \div ScaleOne, (f[2] * s) \div ScaleOne, f[3]>>

\* cv2.resize raises on an empty destination size
ResizeRaises(shape) == shape[1] = 0 \/ shape[2] = 0

\* _resize_frame(frame, scale_factor)
ResizeFrame(f, s) == IF s >= ScaleOne THEN f ELSE NewShape(f, s)

\* cv2.resize(current_frame, self.target_size) when target_size is set
TargetResize(f) == IF target_size # <<>> THEN <<target_size[2], target_size[1], f[3]>> ELSE f

\* _compress_frame: (False, b"") on a codec error, else (True, data)
CompressResults == {<<FALSE, NoData>>} \cup {<<TRUE, n>> : n \in PayloadLens}

\* faulty variant: the guard on the socket is missing
NotConnectedUnchecked == FALSE

\* if self.socket is None
NotConnected == socket = None

\* ------------------------------------------------------------ fractions
RECURSIVE GCD(_, _)
GCD(a, b) == IF b = 0 THEN a ELSE GCD(b, a % b)

\* the fraction n/d in lowest terms
Frac(n, d) == LET g == GCD(n, d) IN <<n \div g, d \div g>>

\* a + b, over the least common denominator
FracAdd(a, b) ==
  LET l == (a[2] \div GCD(a[2], b[2])) * b[2]
  IN Frac(a[1] * (l \div a[2]) + b[1] * (l \div b[2]), l)

RECURSIVE SumFracRange(_, _, _)
SumFracRange(s, lo, hi) ==
  IF lo > hi THEN <<0, 1>>
  ELSE IF lo = hi THEN Frac(s[lo][1], s[lo][2])
  ELSE LET mid == (lo + hi) \div 2
       IN FracAdd(SumFracRange(s, lo, mid), SumFracRange(s, mid + 1, hi))

\* sum(s) of a sequence of fractions
SumFrac(s) == SumFracRange(s, 1, Len(s))

\* sum(x) / len(x) of a sequence of integers
Mean(s) == Frac(SumSeq(s), Len(s))

\* sum(x) / len(x) of a sequence of fractions
MeanFrac(s) == LET t == SumFrac(s) IN Frac(t[1], t[2] * Len(s))

\* ---------------------------------------------------------- get_metrics
EmptyMetrics == [empty |-> TRUE]

\* faulty variant: the mean over the client's lifetime
AvgFrameSizeLifetime == Frac(bytes_sent, frames_sent)

\* 'avg_frame_size': sum(self.frame_sizes) / len(self.frame_sizes)
AvgFrameSize == Mean(frame_sizes)

\* faulty variant: the quality the last search ended on
ReportedQualityLastTried ==
  IF tried # <<>> THEN tried[Len(tried)].quality ELSE 0

\* 'current_quality': self.initial_jpeg_quality
ReportedQuality == initial_jpeg_quality

GetMetrics ==
  IF frame_times = <<>>
  THEN EmptyMetrics
  ELSE [empty |-> FALSE,
        avg_frame_size |-> AvgFrameSize,
        avg_compression |-> MeanFrac(compression_rates),
        avg_process_time |-> Mean(frame_times),
        current_quality |-> ReportedQuality,
        frames_sent |-> frames_sent,
        bytes_sent |-> bytes_sent]

\* _log_metrics divides by self.buffer_size once frame_times is non-empty
LogMetricsRaises(times) == times # <<>> /\ buffer_size = 0

\* the sample lines 123-126 record for a payload
Sample(len, orig, t) == [size |-> len, rate |-> <<len, orig>>, time |-> t]

\* ------------------------------------------------------ InferenceClient
\* a frame in process_frame: the image's shape and the boxes drawn on it
Image(shape) == [shape |-> shape, boxes |-> 0]
NoImage == [shape |-> <<>>, boxes |-> 0]

\* what an InferenceClient call returned: ok is the returned flag, frame the
\* returned frame (NoImage for None), raised whether an exception escaped
AppPending == [op |-> "none", ok |-> FALSE, frame |-> NoImage, raised |-> FALSE]
AppReturned(op, ok, fr) == [op |-> op, ok |-> ok, frame |-> fr, raised |-> FALSE]
AppRaised(op) == [op |-> op, ok |-> FALSE, frame |-> NoImage, raised |-> TRUE]

\* {} 
EmptyDict == [type |-> "dict", truthy |-> FALSE, has |-> FALSE, boxes |-> 0]

FreshClient ==
  /\ socket = None /\ sockets = <<>> /\ inbox = <<>>
  /\ frame_sizes = <<>> /\ compression_rates = <<>> /\ frame_times = <<>>
  /\ frames_sent = 0 /\ bytes_sent = 0
  /\ sent_log = <<>>

Idle ==
  /\ pc = "idle"
  /\ original_size = 0 /\ current_frame = NoFrame /\ current_quality = 0
  /\ scale_factor = 0 /\ success = FALSE /\ data = NoData

Configured ==
  /\ host = DefaultHost /\ port = DefaultPort
  /\ buffer_size \in BufferSizes
  /\ \E q \in QualityPairs : initial_jpeg_quality = q[1] /\ min_jpeg_quality = q[2]
  /\ target_size \in TargetSizes

\* InferenceClient.__init__, lines 38-41; nothing has been called
NotStarted ==
  /\ is_running = FALSE /\ cap = "None"
  /\ cycle = "idle" /\ frame = NoImage
  /\ latest_predictions = EmptyDict /\ latest_metrics = EmptyMetrics
  /\ app_ret = AppPending /\ events = <<>> /\ had_backlog = FALSE

Init ==
  /\ Configured
  /\ FreshClient
  /\ Idle
  /\ NotStarted
  /\ ret = Pending /\ tried = <<>> /\ sendto_log = <<>>
  /\ send_limit = MaxSends

\* The warm start: a client that has already made WarmSends successful sends
\* of one frame on its first socket, which have just filled the rings.
WarmSends == RingCapacity
WarmFrame == <<240, 320, 3>>
WarmSample(i) == Sample(1, WarmFrame[1] * WarmFrame[2] * WarmFrame[3], i % 2)
WarmLog == [i \in 1..WarmSends |-> WarmSample(i)]

WarmClient ==
  /\ socket = 1 /\ sockets = <<"bound">> /\ inbox = <<>>
  /\ sent_log = WarmLog
  /\ frame_sizes = [i \in 1..WarmSends |-> WarmLog[i].size]
  /\ compression_rates = [i \in 1..WarmSends |-> WarmLog[i].rate]
  /\ frame_times = [i \in 1..WarmSends |-> WarmLog[i].time]
  /\ frames_sent = WarmSends
  /\ bytes_sent = SumSeq([i \in 1..WarmSends |-> WarmLog[i].size])

\* a configuration under which every warm sample fits the datagram
RingConfigured ==
  /\ host = DefaultHost /\ port = DefaultPort
  /\ buffer_size = 1
  /\ initial_jpeg_quality = 40 /\ min_jpeg_quality = 30
  /\ target_size = <<>>

InitRing ==
  /\ \/ Configured /\ FreshClient /\ send_limit = MaxSends
     \/ RingConfigured /\ WarmClient /\ send_limit = WarmSends + RingSends
  /\ Idle
  /\ NotStarted
  /\ ret = Pending /\ tried = <<>> /\ sendto_log = <<>>

\* a call returns: its locals are gone
Return(op, val) ==
  /\ pc' = "idle"
  /\ original_size' = 0 /\ current_frame' = NoFrame /\ current_quality' = 0
  /\ scale_factor' = 0 /\ success' = FALSE /\ data' = NoData
  /\ ret' = Returned(op, val)

\* --------------------------------------------------------------- connect
\* the socket object self.socket referred to before it was rebound: nothing
\* closes it; the runtime's finalizer may (collected) or it stays open
Unreferenced(collected) ==
  IF socket # None /\ collected THEN [sockets EXCEPT ![socket] = "closed"] ELSE sockets

\* socket.socket(AF_INET, SOCK_DGRAM) either returns a new socket, which
\* replaces whatever self.socket held (connect closes nothing), or raises and
\* leaves it as it was.  No timeout is set on the socket.
ConnectSocket(ok) ==
  IF ok
  THEN /\ \E collected \in (IF socket = None THEN {FALSE} ELSE BOOLEAN) :
            sockets' = Append(Unreferenced(collected), "open")
       /\ socket' = Len(sockets) + 1
       /\ inbox' = <<>>
       /\ ret' = Returned("connect", TRUE)
  ELSE /\ ret' = Returned("connect", FALSE)
       /\ UNCHANGED <<socket, sockets, inbox>>

Connect ==
  /\ pc = "idle"
  /\ Len(sockets) < MaxSockets
  /\ \E ok \in BOOLEAN : ConnectSocket(ok)
  /\ UNCHANGED <<app, config, metrics, pc, locals, tried, sendto_log, sent_log, send_limit>>

\* ----------------------------------------------------------------- close
\* faulty variant: the handle is dropped without closing the socket
CloseSocketLeaks(held) == sockets

\* self.socket.close()
CloseSocket(held) == [sockets EXCEPT ![held] = "closed"]

\* lines 196-198
CloseHeld ==
  /\ IF socket # None
     THEN /\ sockets' = CloseSocket(socket)
          /\ socket' = None
          /\ inbox' = <<>>
     ELSE UNCHANGED <<socket, sockets, inbox>>
  /\ ret' = Returned("close", "None")

Close ==
  /\ pc = "idle"
  /\ CloseHeld
  /\ UNCHANGED <<app, config, metrics, pc, locals, tried, sendto_log, sent_log, send_limit>>

\* ------------------------------------------------------------ send_frame
\* lines 72-90: the guard on the socket, then the locals of the search
SendFrame(f) ==
  /\ IF NotConnected
     THEN /\ ret' = Returned("send_frame", FALSE)
          /\ UNCHANGED <<pc, locals>>
     ELSE /\ original_size' = f[1] * f[2] * f[3]
          /\ current_frame' = TargetResize(f)
          /\ current_quality' = initial_jpeg_quality
          /\ scale_factor' = ScaleOne
          /\ success' = FALSE
          /\ data' = NoData
          /\ pc' = "inner"
          /\ ret' = Pending
  /\ tried' = <<>>
  /\ sendto_log' = <<>>

SendFrameCall ==
  /\ pc = "idle"
  /\ NotConnected \/ frames_sent < send_limit
  /\ \E f \in Frames : SendFrame(f)
  /\ UNCHANGED <<app, config, socket, sockets, inbox, metrics, sent_log, send_limit>>

\* what one compression attempt came to
Outcome(len, ok) == IF ~ok THEN "error" ELSE IF len <= buffer_size THEN "fits" ELSE "too_large"

\* lines 94-105: one pass of the inner loop
CompressFrame ==
  /\ pc = "inner"
  /\ InnerLoopRuns(current_quality)
  /\ \E r \in CompressResults :
       /\ success' = r[1]
       /\ data' = r[2]
       /\ IF ~r[1]
          THEN pc' = "check" /\ UNCHANGED current_quality
          ELSE IF Fits(r[2])
          THEN pc' = "check" /\ UNCHANGED current_quality
          ELSE pc' = "inner" /\ current_quality' = NextQuality(current_quality)
  /\ tried' = Append(tried, [quality |-> current_quality, result |-> Outcome(data', success')])
  /\ UNCHANGED <<app, config, socket, sockets, inbox, metrics, original_size,
                 current_frame, scale_factor, ret, sendto_log, sent_log, send_limit>>

\* line 94: the inner loop's condition fails
InnerLoopExit ==
  /\ pc = "inner"
  /\ ~InnerLoopRuns(current_quality)
  /\ pc' = "check"
  /\ UNCHANGED <<app, config, socket, sockets, inbox, metrics, locals, ret, tried,
                 sendto_log, sent_log, send_limit>>

\* faulty variant: the outer loop is left whatever the attempt came to
BreakOuterAlways(succ) == TRUE

\* line 107: if success: break
BreakOuter(succ) == succ

\* lines 107-108 and 115: success leaves the outer loop for the send
SearchDone ==
  /\ pc = "check"
  /\ BreakOuter(success)
  /\ pc' = "send"
  /\ UNCHANGED <<app, config, socket, sockets, inbox, metrics, locals, ret, tried,
                 sendto_log, sent_log, send_limit>>

\* lines 110-113, then the outer loop's condition (line 92) and lines 115-117
ScaleDown ==
  /\ pc = "check"
  /\ ~BreakOuter(success)
  /\ LET s == ScaleDecay(scale_factor)
         shape == ResizeFrame(current_frame, s)
     IN IF ResizeRaises(shape)
        THEN Return("send_frame", FALSE)
        ELSE IF OuterLoopRuns(success, s)
        THEN /\ scale_factor' = s
             /\ current_frame' = shape
             /\ current_quality' = initial_jpeg_quality
             /\ pc' = "inner"
             /\ UNCHANGED <<original_size, success, data, ret>>
        ELSE Return("send_frame", FALSE)
  /\ tried' = <<>>
  /\ UNCHANGED <<app, config, socket, sockets, inbox, metrics, sendto_log, sent_log, send_limit>>

\* faulty variant: the counter is left as it was
FramesSentUnchanged(n) == n

\* self.frames_sent += 1
FramesSentAfter(n) == n + 1

\* faulty variant: the counter is overwritten, not added to
BytesSentOverwritten(total, len) == len

\* self.bytes_sent += len(data)
BytesSentAfter(total, len) == total + len

\* lines 119-139: sendto, the metrics, the periodic log, the return value
SendDatagram ==
  /\ pc = "send"
  /\ sendto_log' = Append(sendto_log, data)
  /\ \E ok \in BOOLEAN, t \in Times, due \in BOOLEAN :
       IF ~ok
       THEN /\ Return("send_frame", FALSE)
            /\ UNCHANGED <<sockets, metrics, sent_log>>
       ELSE LET sample == Sample(data, original_size, t) IN
            /\ sockets' = [sockets EXCEPT ![socket] = "bound"]
            /\ frame_sizes' = DequeAppend(frame_sizes, sample.size)
            /\ compression_rates' = DequeAppend(compression_rates, sample.rate)
            /\ frame_times' = DequeAppend(frame_times, sample.time)
            /\ frames_sent' = FramesSentAfter(frames_sent)
            /\ bytes_sent' = BytesSentAfter(bytes_sent, sample.size)
            /\ sent_log' = Append(sent_log, sample)
            /\ Return("send_frame", ~(due /\ LogMetricsRaises(frame_times')))
  /\ UNCHANGED <<app, config, socket, inbox, tried, send_limit>>

\* ---------------------------------------------------- receive_prediction
\* lines 179-185: the guard on the socket, then recvfrom, which blocks: the
\* socket has no timeout, so lines 187-189 are never reached
ReceivePrediction ==
  IF NotConnected
  THEN ret' = Returned("receive_prediction", <<FALSE, "None">>) /\ UNCHANGED pc
  ELSE ret' = Pending /\ pc' = "recv"

ReceiveCall ==
  /\ pc = "idle"
  /\ ReceivePrediction
  /\ UNCHANGED <<app, config, socket, sockets, inbox, metrics, locals, tried,
                 sendto_log, sent_log, send_limit>>

\* recvfrom(self.buffer_size): the datagram, cut to buffer_size bytes
Received(r) == IF r.len <= buffer_size THEN r.kind ELSE "truncated"

\* faulty variant: a datagram that was queued before the cycle began is
\* discarded and the receive fails
RecvFromDropsStale ==
  /\ pc = "recv"
  /\ inbox # <<>>
  /\ ret' = IF had_backlog
            THEN Returned("receive_prediction", <<FALSE, "None">>)
            ELSE Returned("receive_prediction", <<TRUE, Received(Head(inbox))>>)
  /\ inbox' = Tail(inbox)
  /\ pc' = "idle"
  /\ UNCHANGED <<app, config, socket, sockets, metrics, locals, tried, sendto_log,
                 sent_log, send_limit>>

\* lines 185-186: a queued datagram ends the wait
RecvFrom ==
  /\ pc = "recv"
  /\ inbox # <<>>
  /\ ret' = Returned("receive_prediction", <<TRUE, Received(Head(inbox))>>)
  /\ inbox' = Tail(inbox)
  /\ pc' = "idle"
  /\ UNCHANGED <<app, config, socket, sockets, metrics, locals, tried, sendto_log,
                 sent_log, send_limit>>

\* faulty variant: a receive error drops the socket
RecvErrorDropsSocket ==
  /\ pc = "recv"
  /\ ret' = Returned("receive_prediction", <<FALSE, "None">>)
  /\ pc' = "idle"
  /\ sockets' = [sockets EXCEPT ![socket] = "closed"]
  /\ socket' = None
  /\ inbox' = <<>>
  /\ UNCHANGED <<app, config, metrics, locals, tried, sendto_log, sent_log, send_limit>>

\* lines 190-192: recvfrom raises
RecvError ==
  /\ pc = "recv"
  /\ ret' = Returned("receive_prediction", <<FALSE, "None">>)
  /\ pc' = "idle"
  /\ UNCHANGED <<app, config, socket, sockets, inbox, metrics, locals, tried,
                 sendto_log, sent_log, send_limit>>

\* ----------------------------------------------------------- get_metrics
GetMetricsCall ==
  /\ pc = "idle"
  /\ ret' = Returned("get_metrics", GetMetrics)
  /\ UNCHANGED <<app, config, socket, sockets, inbox, metrics, pc, locals, tried,
                 sendto_log, sent_log, send_limit>>

\* --------------------------------------------------------------- network
\* a datagram reaches the held socket, once a send has bound it to a port;
\* send_frame never reads the queue, so arrivals during it are taken after it
Deliver ==
  /\ pc \in {"idle", "recv"}
  /\ socket # None
  /\ sockets[socket] = "bound"
  /\ Len(inbox) < MaxInbox
  /\ \E r \in Replies : inbox' = Append(inbox, r)
  /\ UNCHANGED <<app, config, socket, sockets, metrics, pc, locals, ret, tried,
                 sendto_log, sent_log, send_limit>>

\* ------------------------------------------------------ PredictionHandler
\* json.loads(data.decode('utf-8')) for the payloads that decode
JsonValue(kind) ==
  CASE kind = "predictions" -> [type |-> "dict", truthy |-> TRUE, has |-> TRUE, boxes |-> 1]
    [] kind = "no_key" -> [type |-> "dict", truthy |-> TRUE, has |-> FALSE, boxes |-> 0]
    [] kind = "number" -> [type |-> "int", truthy |-> TRUE, has |-> FALSE, boxes |-> 0]

\* decode raises UnicodeDecodeError or json.loads raises JSONDecodeError
ParseRaises(kind) == kind \in {"not_json", "truncated"}

\* parse_prediction: {} when decoding or parsing raises
ParsePrediction(kind) == IF ParseRaises(kind) THEN EmptyDict ELSE JsonValue(kind)

\* not predictions or 'predictions' not in predictions: `in` raises TypeError
\* on a value that is not a container
NoPredictions(p) ==
  IF ~p.truthy THEN "True"
  ELSE IF p.type \notin {"dict", "list", "str"} THEN "raises"
  ELSE IF ~p.has THEN "True"
  ELSE "False"

\* draw_predictions(frame, predictions)
DrawPredictions(fr, p) ==
  CASE NoPredictions(p) = "raises" -> [raised |-> TRUE, frame |-> fr]
    [] NoPredictions(p) = "True" -> [raised |-> FALSE, frame |-> fr]
    [] NoPredictions(p) = "False" ->
         IF p.type # "dict"
         THEN [raised |-> TRUE, frame |-> fr]
         ELSE [raised |-> FALSE, frame |-> [fr EXCEPT !.boxes = p.boxes]]

\* get_prediction_summary(predictions)
GetPredictionSummary(p) ==
  CASE NoPredictions(p) = "raises" -> "raises"
    [] NoPredictions(p) = "True" -> "No predictions"
    [] NoPredictions(p) = "False" -> IF p.type # "dict" THEN "raises" ELSE "Found"

\* ------------------------------------------------------ InferenceClient
\* an InferenceClient call returns
AppReturn(r) ==
  /\ app_ret' = r
  /\ cycle' = "idle"
  /\ frame' = NoImage

\* VideoCapture.start: the source opens, does not open, or cv2 raises
StartResults == {"opened", "unopened", "raises"}

\* faulty variant: release leaves the capture open
ReleaseKeepsOpen == "opened"

\* VideoCapture.release
Release == "None"

\* InferenceClient.start
Start ==
  /\ cycle = "idle" /\ pc = "idle"
  /\ IF is_running
     THEN /\ AppReturn(AppReturned("start", TRUE, NoImage))
          /\ UNCHANGED <<is_running, cap, socket, sockets, inbox, ret>>
     ELSE \E v \in StartResults :
          IF v # "opened"
          THEN /\ cap' = IF v = "raises" THEN cap ELSE v
               /\ AppReturn(AppReturned("start", FALSE, NoImage))
               /\ UNCHANGED <<is_running, socket, sockets, inbox, ret>>
          ELSE /\ Len(sockets) < MaxSockets
               /\ \E ok \in BOOLEAN :
                    /\ ConnectSocket(ok)
                    /\ cap' = IF ok THEN v ELSE Release
                    /\ is_running' = ok
                    /\ AppReturn(AppReturned("start", ok, NoImage))
  /\ UNCHANGED <<config, metrics, pc, locals, tried, sendto_log, sent_log, send_limit,
                 latest_predictions, latest_metrics, events, had_backlog>>

\* InferenceClient.stop
Stop ==
  /\ cycle = "idle" /\ pc = "idle"
  /\ IF ~is_running
     THEN UNCHANGED <<is_running, cap, socket, sockets, inbox, ret>>
     ELSE /\ cap' = Release
          /\ CloseHeld
          /\ is_running' = FALSE
  /\ AppReturn(AppReturned("stop", TRUE, NoImage))
  /\ UNCHANGED <<config, metrics, pc, locals, tried, sendto_log, sent_log, send_limit,
                 latest_predictions, latest_metrics, events, had_backlog>>

\* VideoCapture.read_frame: (False, None) without an opened capture, else
\* whatever cap.read() gives
ReadResults ==
  {<<FALSE, NoFrame>>} \cup (IF cap = "opened" THEN {<<TRUE, f>> : f \in Frames} ELSE {})

\* process_frame, lines 66-77: the guard, the capture, the call of send_frame
ProcessFrameCall ==
  /\ cycle = "idle" /\ pc = "idle"
  /\ ~is_running \/ NotConnected \/ frames_sent < send_limit
  /\ IF ~is_running
     THEN /\ AppReturn(AppReturned("process_frame", FALSE, NoImage))
          /\ UNCHANGED <<events, had_backlog, pc, locals, ret, tried, sendto_log>>
     ELSE \E r \in ReadResults :
          IF ~r[1]
          THEN /\ AppReturn(AppReturned("process_frame", FALSE, NoImage))
               /\ events' = <<>>
               /\ had_backlog' = (inbox # <<>>)
               /\ UNCHANGED <<pc, locals, ret, tried, sendto_log>>
          ELSE /\ frame' = Image(r[2])
               /\ events' = <<"capture", "send">>
               /\ had_backlog' = (inbox # <<>>)
               /\ SendFrame(r[2])
               /\ cycle' = "send"
               /\ app_ret' = AppPending
  /\ UNCHANGED <<config, socket, sockets, inbox, metrics, sent_log, send_limit,
                 is_running, cap, latest_predictions, latest_metrics>>

\* lines 87-90: the metrics are refreshed and the frame returned
FinishCycle(fr) ==
  /\ latest_metrics' = GetMetrics
  /\ ret' = Returned("get_metrics", GetMetrics)
  /\ AppReturn(AppReturned("process_frame", TRUE, fr))

\* faulty variant: the reply is awaited whatever send_frame returned
ReceiveAfterAnySend(sent) == TRUE

\* line 77: if self.udp_client.send_frame(frame)
ReceiveAfter(sent) == sent

\* lines 77-78 and 84-90: send_frame has returned
SendReturned ==
  /\ cycle = "send" /\ pc = "idle"
  /\ IF ReceiveAfter(ret.val)
     THEN /\ ReceivePrediction
          /\ events' = Append(events, "receive")
          /\ IF pc' = "recv"
             THEN cycle' = "recv" /\ UNCHANGED <<frame, app_ret, latest_metrics>>
             ELSE /\ latest_metrics' = GetMetrics
                  /\ AppReturn(AppReturned("process_frame", TRUE, frame))
     ELSE /\ FinishCycle(frame)
          /\ UNCHANGED <<pc, events>>
  /\ UNCHANGED <<config, socket, sockets, inbox, metrics, locals, tried, sendto_log,
                 sent_log, send_limit, is_running, cap, latest_predictions, had_backlog>>

\* lines 79-90: receive_prediction has returned
ReceiveReturned ==
  /\ cycle = "recv" /\ pc = "idle"
  /\ IF ret.val[1]
     THEN LET p == ParsePrediction(ret.val[2])
              d == DrawPredictions(frame, p)
          IN /\ latest_predictions' = p
             /\ events' = events \o <<"parse", "draw">>
             /\ IF d.raised
                THEN /\ AppReturn(AppRaised("process_frame"))
                     /\ UNCHANGED <<latest_metrics, ret>>
                ELSE FinishCycle(d.frame)
     ELSE /\ FinishCycle(frame)
          /\ UNCHANGED <<latest_predictions, events>>
  /\ UNCHANGED <<config, socket, sockets, inbox, metrics, pc, locals, tried, sendto_log,
                 sent_log, send_limit, is_running, cap, had_backlog>>

\* InferenceClient.get_metrics: the summary is added when latest_predictions
\* is truthy
AppGetMetrics ==
  /\ cycle = "idle" /\ pc = "idle"
  /\ IF latest_predictions.truthy /\ GetPredictionSummary(latest_predictions) = "raises"
     THEN AppReturn(AppRaised("get_metrics"))
     ELSE AppReturn(AppReturned("get_metrics", TRUE, NoImage))
  /\ UNCHANGED <<config, socket, sockets, inbox, metrics, pc, locals, ret, tried,
                 sendto_log, sent_log, send_limit, is_running, cap,
                 latest_predictions, latest_metrics, events, had_backlog>>

Next ==
  \/ Connect
  \/ Close
  \/ SendFrameCall
  \/ CompressFrame
  \/ InnerLoopExit
  \/ SearchDone
  \/ ScaleDown
  \/ SendDatagram
  \/ ReceiveCall
  \/ RecvFrom
  \/ RecvError
  \/ GetMetricsCall
  \/ Deliver

Spec == Init /\ [][Next]_vars

\* The same client, started fresh or warm, to reach the rings' capacity; the
\* receive path, which touches no metric, is left to Spec.
NextRing ==
  \/ Connect
  \/ Close
  \/ SendFrameCall
  \/ CompressFrame
  \/ InnerLoopExit
  \/ SearchDone
  \/ ScaleDown
  \/ SendDatagram
  \/ GetMetricsCall

SpecRing == InitRing /\ [][NextRing]_vars

\* An InferenceClient: it builds its UDPClient with the default buffer_size
\* and min_jpeg_quality and its own jpeg_quality and frame_size, and makes
\* every call on it.
DefaultBufferSize == 65507
DefaultMinQuality == 30
JpegQualities == {40, 25}
FrameSizes == {<<320, 240>>}

InitApp ==
  /\ host = DefaultHost /\ port = DefaultPort
  /\ buffer_size = DefaultBufferSize
  /\ initial_jpeg_quality \in JpegQualities
  /\ min_jpeg_quality = DefaultMinQuality
  /\ target_size \in FrameSizes
  /\ FreshClient
  /\ Idle
  /\ NotStarted
  /\ ret = Pending /\ tried = <<>> /\ sendto_log = <<>>
  /\ send_limit = MaxSends

NextApp ==
  \/ Start
  \/ Stop
  \/ ProcessFrameCall
  \/ CompressFrame
  \/ InnerLoopExit
  \/ SearchDone
  \/ ScaleDown
  \/ SendDatagram
  \/ SendReturned
  \/ RecvFrom
  \/ RecvError
  \/ ReceiveReturned
  \/ AppGetMetrics
  \/ Deliver

SpecApp == InitApp /\ [][NextApp]_vars

\* The same InferenceClient after its first cycle: started, one frame
\* captured, compressed at the first attempt and sent, the receive failed, the
\* frame returned.  A second cycle can then meet a reply to the first frame.
AfterOneCycle ==
  /\ socket = 1 /\ sockets = <<"bound">> /\ inbox = <<>>
  /\ sent_log = <<Sample(1, WarmFrame[1] * WarmFrame[2] * WarmFrame[3], 0)>>
  /\ frame_sizes = <<sent_log[1].size>>
  /\ compression_rates = <<sent_log[1].rate>>
  /\ frame_times = <<sent_log[1].time>>
  /\ frames_sent = 1 /\ bytes_sent = sent_log[1].size
  /\ tried = <<[quality |-> initial_jpeg_quality, result |-> "fits"]>>
  /\ sendto_log = <<sent_log[1].size>>
  /\ ret = Returned("get_metrics", GetMetrics)
  /\ is_running = TRUE /\ cap = "opened"
  /\ cycle = "idle" /\ frame = NoImage
  /\ latest_predictions = EmptyDict /\ latest_metrics = GetMetrics
  /\ app_ret = AppReturned("process_frame", TRUE, Image(WarmFrame))
  /\ events = <<"capture", "send", "receive">> /\ had_backlog = FALSE

InitStale ==
  /\ host = DefaultHost /\ port = DefaultPort
  /\ buffer_size = DefaultBufferSize
  /\ initial_jpeg_quality = 40
  /\ min_jpeg_quality = DefaultMinQuality
  /\ target_size \in FrameSizes
  /\ Idle
  /\ AfterOneCycle
  /\ send_limit = 1 + MaxSends

\* With the default buffer every payload fits, so the quality never leaves its
\* initial value and the inner loop's condition holds whenever it is tested.
NextStale ==
  \/ Start
  \/ Stop
  \/ ProcessFrameCall
  \/ CompressFrame
  \/ SearchDone
  \/ ScaleDown
  \/ SendDatagram
  \/ SendReturned
  \/ RecvFrom
  \/ RecvError
  \/ ReceiveReturned
  \/ AppGetMetrics
  \/ Deliver

SpecStale == InitStale /\ [][NextStale]_vars

\* The steps of a running call are taken by the client's own thread, so they
\* happen; calls, arrivals and socket errors are the environment's to make.
FairSpec ==
  /\ Spec
  /\ WF_vars(CompressFrame) /\ WF_vars(InnerLoopExit) /\ WF_vars(SearchDone)
  /\ WF_vars(ScaleDown) /\ WF_vars(SendDatagram) /\ WF_vars(RecvFrom)

\* The search of send_frame alone, on a client that is connected and sends:
\* the steps of a running call are taken, so each is weakly fair.
NextSearch ==
  \/ Connect
  \/ SendFrameCall
  \/ CompressFrame
  \/ InnerLoopExit
  \/ SearchDone
  \/ ScaleDown
  \/ SendDatagram

FairSearch ==
  /\ Init /\ [][NextSearch]_vars
  /\ WF_vars(CompressFrame) /\ WF_vars(InnerLoopExit) /\ WF_vars(SearchDone)
  /\ WF_vars(ScaleDown) /\ WF_vars(SendDatagram)

\* =================================================================
\* Claims
\* =================================================================

\* C1: every payload send_frame hands to socket.sendto is at most
\* buffer_size bytes long.
C1_SentPayloadFits ==
  \A i \in 1..Len(sendto_log) : sendto_log[i] <= buffer_size

\* C2: when no payload the codec can produce is within buffer_size, so that no
\* quality and scale gives a fit, send_frame returns False and never calls
\* sendto for the frame.
C2_NoFitNoSend ==
  (\A n \in PayloadLens : n > buffer_size)
     => /\ sendto_log = <<>>
        /\ ~(ret.op = "send_frame" /\ ret.val = TRUE)

\* C3: when the inner loop ends with every quality from initial down to min
\* compressed and too large, and a further scale is left, the next step scales
\* down: scale_factor is multiplied by 0.8, the working frame is resized from
\* its current size, quality is reset to initial_jpeg_quality and the search
\* goes on.
C3_ExhaustionScalesDown ==
  [][ ( /\ pc = "check"
        /\ tried # <<>>
        /\ tried[Len(tried)].result = "too_large"
        /\ current_quality < min_jpeg_quality
        /\ (scale_factor * DecayNum) \div DecayDen > ScaleFloor
        /\ ~ResizeRaises(NewShape(current_frame, (scale_factor * DecayNum) \div DecayDen)) )
      => ( /\ pc' = "inner"
           /\ scale_factor' = (scale_factor * DecayNum) \div DecayDen
           /\ current_frame' = NewShape(current_frame, scale_factor')
           /\ current_quality' = initial_jpeg_quality ) ]_vars

\* C4: a receive_prediction call on a connected client always returns, even if
\* no datagram ever arrives.
C4_ReceiveReturns ==
  (pc = "recv") ~> (pc = "idle" /\ ret.op = "receive_prediction")

\* the qualities tried at one scale start at initial_jpeg_quality, go down by
\* exactly 5, never go below min_jpeg_quality, and go on only past a payload
\* that was too large
QualityLadder ==
  \A i \in 1..Len(tried) :
    /\ tried[i].quality = initial_jpeg_quality - 5 * (i - 1)
    /\ tried[i].quality >= min_jpeg_quality
    /\ i < Len(tried) => tried[i].result = "too_large"

\* C5 as claimed: the ladder of qualities at one scale ends at the first
\* payload that fits or when the next value would be below min_jpeg_quality.
C5_LadderEndsAtFitOrMin ==
  /\ QualityLadder
  /\ (pc = "check" /\ tried # <<>>)
       => \/ tried[Len(tried)].result = "fits"
          \/ tried[Len(tried)].quality - 5 < min_jpeg_quality

\* C5 (amended): the ladder of qualities at one scale starts at
\* initial_jpeg_quality, steps down by exactly 5, never goes below
\* min_jpeg_quality, and ends at the first payload that fits, at a compression
\* error, or when the next value would be below min_jpeg_quality.
C5_LadderEndsAtFitErrorOrMin ==
  /\ QualityLadder
  /\ (pc = "check" /\ tried # <<>>)
       => \/ tried[Len(tried)].result \in {"fits", "error"}
          \/ tried[Len(tried)].quality - 5 < min_jpeg_quality
  /\ (pc = "inner" /\ tried # <<>>)
       => /\ tried[Len(tried)].result = "too_large"
          /\ current_quality = tried[Len(tried)].quality - 5

\* a ladder of three qualities has been tried and the inner loop has ended
C5_Witness ==
  /\ pc = "check"
  /\ Len(tried) = 3
  /\ tried[3].quality - 5 < min_jpeg_quality

\* C6: while the client holds no socket, send_frame and receive_prediction
\* return the failure outcome at once, with no socket I/O and no change to the
\* metrics.
C6_NoSocketFails ==
  [][ socket = None
      => ( /\ pc' = "idle"
           /\ UNCHANGED <<metrics, sent_log>>
           /\ ret'.op = "send_frame"
                => /\ ret'.val = FALSE
                   /\ sendto_log' = <<>>
                   /\ UNCHANGED <<socket, sockets, inbox>>
           /\ ret'.op = "receive_prediction"
                => /\ ret'.val = <<FALSE, "None">>
                   /\ UNCHANGED <<socket, sockets, inbox>> ) ]_vars

\* after a successful send and a close, send_frame has returned False
C6_Witness ==
  /\ socket = None
  /\ frames_sent > 0
  /\ ret.op = "send_frame"
  /\ \E i \in 1..Len(sockets) : sockets[i] = "closed"

\* C7: close never fails and leaves the client without a socket: with no
\* socket held it changes nothing, and with one held it closes that socket,
\* which was not closed before, and no other.
C7_CloseIsSafe ==
  [][ Close
      => ( /\ socket' = None
           /\ pc' = "idle"
           /\ UNCHANGED <<metrics, sent_log>>
           /\ socket = None => UNCHANGED <<sockets, inbox>>
           /\ socket # None
                => /\ sockets[socket] # "closed"
                   /\ sockets' = [sockets EXCEPT ![socket] = "closed"] ) ]_vars

\* close has returned after releasing the socket the client held
C7_Witness ==
  /\ ret.op = "close"
  /\ socket = None
  /\ sockets # <<>>
  /\ sockets[Len(sockets)] = "closed"

\* the samples of the most recent min(n, 100) accepted datagrams
Recent == LastN(sent_log, 100)

\* C8: each metric buffer holds at most 100 entries, and exactly the samples
\* of the most recent min(n, 100) successful sends, oldest first.
C8_RingsHoldRecent ==
  /\ Len(frame_sizes) <= 100
  /\ Len(compression_rates) <= 100
  /\ Len(frame_times) <= 100
  /\ frame_sizes = [i \in 1..Len(Recent) |-> Recent[i].size]
  /\ compression_rates = [i \in 1..Len(Recent) |-> Recent[i].rate]
  /\ frame_times = [i \in 1..Len(Recent) |-> Recent[i].time]

\* a sample has been appended to full buffers
C8_Witness ==
  /\ Len(sent_log) > 100
  /\ Len(frame_sizes) = 100
  /\ sent_log[Len(sent_log)] # sent_log[Len(sent_log) - 100]

\* C9: frames_sent is the number of datagrams sendto accepted and bytes_sent
\* the sum of their lengths, and neither ever decreases, whatever the rings
\* evict and whatever connect and close do.
C9_LifetimeCounters ==
  /\ [](/\ frames_sent = Len(sent_log)
        /\ bytes_sent = SumSeq([i \in 1..Len(sent_log) |-> sent_log[i].size]))
  /\ [][frames_sent' >= frames_sent /\ bytes_sent' >= bytes_sent]_vars

\* a send on a second socket, after a close, has evicted a sample
C9_Witness ==
  /\ frames_sent > 100
  /\ Len(sockets) >= 2
  /\ sockets[1] = "closed"
  /\ socket # None /\ sockets[socket] = "bound"

\* C10: get_metrics returns the empty result exactly when nothing was sent;
\* otherwise avg_frame_size is the mean of the sizes of the most recent
\* min(n, 100) sends, reported with the lifetime frames_sent and bytes_sent.
C10_GetMetrics ==
  ret.op = "get_metrics"
    => /\ ret.val.empty <=> sent_log = <<>>
       /\ ~ret.val.empty
            => /\ ret.val.avg_frame_size =
                    Frac(SumSeq([i \in 1..Len(Recent) |-> Recent[i].size]), Len(Recent))
               /\ ret.val.frames_sent = Len(sent_log)
               /\ ret.val.bytes_sent =
                    SumSeq([i \in 1..Len(sent_log) |-> sent_log[i].size])

\* get_metrics has answered after an eviction, when the mean over the ring is
\* not the lifetime mean
C10_Witness ==
  /\ ret.op = "get_metrics"
  /\ Len(sent_log) > 100
  /\ ret.val.avg_frame_size # Frac(bytes_sent, frames_sent)

\* C11: a metrics sample is recorded exactly once per successful send and
\* never otherwise: a step on which send_frame returns False leaves the three
\* buffers, frames_sent and bytes_sent unchanged; a step on which it returns
\* True is the only sendto of the call and appends one entry to each buffer;
\* no other step changes them.
C11_SampleOncePerSuccess ==
  [][ IF ret'.op = "send_frame" /\ pc = "send" /\ ret'.val = TRUE
      THEN /\ Len(sendto_log') = 1
           /\ frames_sent' = frames_sent + 1
           /\ bytes_sent' = bytes_sent + data
           /\ Len(frame_sizes') = Min(Len(frame_sizes) + 1, 100)
           /\ Len(compression_rates') = Min(Len(compression_rates) + 1, 100)
           /\ Len(frame_times') = Min(Len(frame_times) + 1, 100)
           /\ frame_sizes'[Len(frame_sizes')] = data
           /\ compression_rates'[Len(compression_rates')] = <<data, original_size>>
      ELSE UNCHANGED metrics ]_vars

\* C12: current_quality in every non-empty get_metrics result is the
\* configured initial_jpeg_quality, whatever quality an earlier search ended
\* on, and no step changes host, port, buffer_size, initial_jpeg_quality,
\* min_jpeg_quality or target_size.
C12_QualityIsConfigured ==
  /\ [](ret.op = "get_metrics" /\ ~ret.val.empty
          => ret.val.current_quality = initial_jpeg_quality)
  /\ [][UNCHANGED <<host, port, buffer_size, initial_jpeg_quality,
                    min_jpeg_quality, target_size>>]_vars

\* get_metrics has answered after a send whose search ended below the
\* initial quality
C12_Witness ==
  /\ ret.op = "get_metrics"
  /\ ~ret.val.empty
  /\ tried # <<>>
  /\ tried[Len(tried)].quality < initial_jpeg_quality
  /\ sendto_log # <<>>

\* C13: a receive_prediction call that fails leaves the transport connected
\* and its metrics unchanged: neither the call nor its failing return changes
\* the configuration, the held socket, its queue or the metrics, so the client
\* is, but for the returned value, in the state it was in before the call and
\* a following send_frame behaves as it would have before it.
C13_FailedReceiveKeepsTransport ==
  [][ ( \/ pc = "idle" /\ pc' = "recv"
        \/ /\ pc = "recv" /\ pc' = "idle"
           /\ ret'.op = "receive_prediction" /\ ret'.val[1] = FALSE )
      => ( /\ socket # None
           /\ sockets[socket] # "closed"
           /\ UNCHANGED <<config, socket, sockets, inbox, metrics, locals, sent_log>> ) ]_vars

\* a receive on a connected client that has sent a frame has failed
C13_Witness ==
  /\ ret = [op |-> "receive_prediction", val |-> <<FALSE, "None">>]
  /\ socket # None
  /\ sockets[socket] = "bound"
  /\ frames_sent > 0

\* C14: in a running InferenceClient a cycle whose frame was captured but
\* whose send failed, whose receive failed, or whose reply was malformed or
\* lacked predictions ends with process_frame returning (True, frame), frame
\* being the captured frame without overlays, with nothing raised and with
\* is_running, the capture and the socket as they were.
C14_SkippableCycle ==
  [][ ( /\ pc = "idle" /\ cycle' = "idle"
        /\ \/ cycle = "send" /\ ret.val = FALSE
           \/ cycle = "recv" /\ (ret.val[1] = FALSE \/ ret.val[2] # "predictions") )
      => ( /\ app_ret' = [op |-> "process_frame", ok |-> TRUE,
                          frame |-> [shape |-> frame.shape, boxes |-> 0],
                          raised |-> FALSE]
           /\ is_running /\ is_running'
           /\ UNCHANGED <<cap, socket, sockets>> ) ]_vars

\* C15: for every received payload that is not valid UTF-8 JSON, or is JSON
\* without a predictions key, parsing, drawing and summarising raise nothing:
\* the parsed value holds no predictions, the frame comes back without
\* overlays, and the summary is the no-predictions message.
C15_BadPayloadIsNoPredictions ==
  [][ /\ ( /\ cycle = "recv" /\ pc = "idle" /\ cycle' = "idle"
           /\ ret.val[1] = TRUE /\ ret.val[2] # "predictions" )
         => ( /\ ~latest_predictions'.has
              /\ latest_predictions'.boxes = 0
              /\ ~app_ret'.raised
              /\ app_ret'.frame = frame
              /\ GetPredictionSummary(latest_predictions') = "No predictions" )
      /\ ( /\ cycle = "idle" /\ app_ret'.op = "get_metrics" /\ app_ret' # app_ret
           /\ ~latest_predictions.has )
         => ~app_ret'.raised ]_vars

\* the first attempt of the call, on the unscaled frame with no target size,
\* gave a payload that fits
FirstAttemptFits ==
  /\ target_size = <<>>
  /\ scale_factor = 1000000
  /\ tried # <<>>
  /\ tried[1].result = "fits"

\* that attempt was the only one, at initial_jpeg_quality, on the frame as
\* it was passed in
OnlyAttemptAtInitial ==
  /\ tried = <<[quality |-> initial_jpeg_quality, result |-> "fits"]>>
  /\ current_frame \in Frames
  /\ current_frame[1] * current_frame[2] * current_frame[3] = original_size
  /\ data <= buffer_size

\* C16 as claimed: when no target size is set and the payload compressed at
\* initial_jpeg_quality fits, send_frame succeeds after exactly one
\* compression attempt, at initial_jpeg_quality on the unscaled frame, and
\* sends that payload.
C16_FirstFitSucceeds ==
  [][ /\ (pc = "check" /\ FirstAttemptFits)
         => (OnlyAttemptAtInitial /\ pc' = "send" /\ UNCHANGED locals)
      /\ (pc = "send" /\ FirstAttemptFits)
         => ( /\ OnlyAttemptAtInitial
              /\ sendto_log' = <<data>>
              /\ ret' = [op |-> "send_frame", val |-> TRUE] ) ]_vars

\* C16 (amended): when no target size is set and the payload compressed at
\* initial_jpeg_quality fits, send_frame makes exactly one compression
\* attempt, at initial_jpeg_quality on the unscaled frame, and hands that
\* payload to sendto once; it returns True unless sendto raises, and then it
\* returns False with the metrics unchanged.
C16_FirstFitIsSent ==
  [][ /\ (pc = "check" /\ FirstAttemptFits)
         => (OnlyAttemptAtInitial /\ pc' = "send" /\ UNCHANGED locals)
      /\ (pc = "send" /\ FirstAttemptFits)
         => ( /\ OnlyAttemptAtInitial
              /\ sendto_log' = <<data>>
              /\ \/ ret' = [op |-> "send_frame", val |-> TRUE]
                 \/ ret' = [op |-> "send_frame", val |-> FALSE] /\ UNCHANGED metrics ) ]_vars

\* the first attempt, on the unscaled frame, fitted and send_frame is about
\* to hand its payload to sendto
C16_Witness ==
  /\ pc = "send"
  /\ target_size = <<>>
  /\ scale_factor = 1000000
  /\ tried = <<[quality |-> initial_jpeg_quality, result |-> "fits"]>>
  /\ data = buffer_size

\* the calls of one full cycle, in order
FullCycle == <<"capture", "send", "receive", "parse", "draw">>

\* C17: within one cycle the steps happen in the order capture, encode, send,
\* receive, render, each at most once: compression and sendto happen only
\* inside the cycle's one send_frame call, sendto after a compression and at
\* most once; the receive is attempted only after that call returned True,
\* parse and draw only after the receive returned data; and a cycle starts
\* only when the one before has returned.
C17_CycleOrder ==
  /\ [] ( /\ Len(events) <= Len(FullCycle)
          /\ events = SubSeq(FullCycle, 1, Len(events))
          /\ pc \in {"inner", "check", "send"} => (cycle = "send" /\ events = <<"capture", "send">>)
          /\ pc = "recv" => (cycle = "recv" /\ events = <<"capture", "send", "receive">>)
          /\ cycle = "recv" => (Len(sendto_log) = 1 /\ Len(events) = 3)
          /\ cycle # "idle" => Len(sendto_log) <= 1
          /\ sendto_log # <<>> => tried # <<>> )
  /\ [][ /\ (Len(events') = 3 /\ Len(events) = 2)
            => (pc = "idle" /\ ret = [op |-> "send_frame", val |-> TRUE])
         /\ (Len(events') = 5 /\ Len(events) = 3)
            => (pc = "idle" /\ ret.op = "receive_prediction" /\ ret.val[1] = TRUE)
         /\ (cycle' # "idle" /\ cycle = "idle")
            => (pc = "idle" /\ events' = <<"capture", "send">>)
         /\ Len(events') \in {Len(events), 0, 2, 3, 5} ]_vars

\* a full cycle has run and returned the annotated frame
C17_Witness ==
  /\ events = <<"capture", "send", "receive", "parse", "draw">>
  /\ cycle = "idle"
  /\ app_ret.op = "process_frame" /\ app_ret.ok
  /\ app_ret.frame.boxes = 1

\* C18: connect on a client that holds a socket does not replace it: a step
\* taken while a socket is held creates no socket and leaves the handle on
\* that socket or on none; so at most one socket the client created is open,
\* and none is once the client holds none.
C18_ConnectKeepsHeldSocket ==
  /\ [][ socket # None
         => (Len(sockets') = Len(sockets) /\ socket' \in {socket, None}) ]_vars
  /\ [] ( /\ Cardinality({i \in DOMAIN sockets : sockets[i] # "closed"}) <= 1
          /\ socket = None => \A i \in DOMAIN sockets : sockets[i] = "closed" )

\* the scale levels a search can run at: 1.0, 0.8, 0.64, 0.512, 0.4096, 0.32768
ScaleLevels == {1000000, 800000, 640000, 512000, 409600, 327680}

\* the attempts one level can make: floor((initial - min) / 5) + 1, none when
\* min_jpeg_quality > initial_jpeg_quality
MaxAttempts ==
  IF min_jpeg_quality > initial_jpeg_quality
  THEN 0
  ELSE (initial_jpeg_quality - min_jpeg_quality) \div 5 + 1

\* C19: the search of send_frame terminates for every configuration: a call
\* that has started returns; it runs at one of the six scale levels, visits
\* them in decreasing order, and makes at most floor((initial - min) / 5) + 1
\* attempts at a level.
C19_SearchTerminates ==
  /\ (pc \in {"inner", "check", "send"}) ~> (pc = "idle" /\ ret.op = "send_frame")
  /\ [] ( pc \in {"inner", "check", "send"}
            => /\ scale_factor \in ScaleLevels
               /\ Len(tried) <= MaxAttempts )
  /\ [][ (pc \in {"inner", "check"} /\ pc' # "idle")
           => \/ UNCHANGED scale_factor
              \/ scale_factor' < scale_factor /\ tried' = <<>> ]_vars

\* a search under min_jpeg_quality > initial_jpeg_quality and buffer_size = 0
\* is at the sixth level, having made no attempt
C19_Witness ==
  /\ pc = "check"
  /\ scale_factor = 327680
  /\ min_jpeg_quality > initial_jpeg_quality
  /\ buffer_size = 0
  /\ tried = <<>>

\* C20: a compression error is never treated as a fit: an error is the last
\* attempt of its scale level, the step after it is the scale-down or the
\* return of False, never the send; sendto is called only after an attempt
\* that did not fail, so a call whose every attempt fails calls no sendto,
\* changes no metric and returns False.
C20_ErrorIsNotAFit ==
  /\ [] ( /\ \A i \in 1..Len(tried) - 1 : tried[i].result # "error"
          /\ (pc = "send" \/ sendto_log # <<>>)
               => (tried # <<>> /\ tried[Len(tried)].result # "error")
          /\ (ret.op = "send_frame" /\ ret.val = TRUE) => sendto_log # <<>> )
  /\ [][ (pc = "check" /\ tried # <<>> /\ tried[Len(tried)].result = "error")
           => /\ pc' \in {"inner", "idle"}
              /\ pc' = "inner" => scale_factor' < scale_factor
              /\ pc' = "idle" => ret' = [op |-> "send_frame", val |-> FALSE]
              /\ sendto_log' = <<>>
              /\ UNCHANGED metrics ]_vars

\* a call on a connected client, which made attempts, has returned False
\* without a sendto
C20_Witness ==
  /\ pc = "idle"
  /\ socket # None
  /\ ret = [op |-> "send_frame", val |-> FALSE]
  /\ sendto_log = <<>>
  /\ initial_jpeg_quality >= min_jpeg_quality
  /\ target_size = <<>>

\* C21: receive_prediction accepts whichever datagram is next in the socket's
\* queue, with no correlation to the frame just sent: a receive that takes a
\* datagram returns the head of the queue, also when that datagram was queued
\* before the cycle began, and process_frame renders a predictions reply so
\* received on the frame of the current cycle.  The queue is first-in
\* first-out and a cycle receives once, so a datagram received while had_backlog
\* holds reached the socket before this cycle's frame was sent: it
\* answers a frame of an earlier cycle.
C21_NextDatagramIsAccepted ==
  /\ [][ (pc = "recv" /\ pc' = "idle" /\ inbox' # inbox)
         => /\ inbox # <<>>
            /\ inbox' = Tail(inbox)
            /\ ret'.op = "receive_prediction"
            /\ ret'.val = <<TRUE, IF Head(inbox).len <= buffer_size
                                  THEN Head(inbox).kind ELSE "truncated">> ]_vars
  /\ [][ ( /\ cycle = "recv" /\ cycle' = "idle"
           /\ ret.op = "receive_prediction"
           /\ ret.val = <<TRUE, "predictions">> )
         => /\ app_ret' = AppReturned("process_frame", TRUE,
                                      [shape |-> frame.shape, boxes |-> 1])
            /\ latest_predictions'.has ]_vars

\* the second cycle on the first socket began with a datagram already queued,
\* sent its own frame, received that datagram and returned its frame with the
\* boxes of that datagram drawn on it
C21_Witness ==
  /\ had_backlog
  /\ frames_sent = 2 /\ socket = 1
  /\ events = FullCycle
  /\ cycle = "idle"
  /\ app_ret.op = "process_frame" /\ app_ret.ok
  /\ app_ret.frame.boxes = 1
  /\ latest_predictions.has

\* C22: in every reachable state the three metric buffers have the same
\* length, which is min(frames_sent, 100); they are empty exactly when
\* frames_sent = 0, so get_metrics returns the empty result exactly when
\* sendto has accepted no datagram yet.
C22_BuffersFollowFramesSent ==
  /\ Len(frame_sizes) = Len(compression_rates)
  /\ Len(compression_rates) = Len(frame_times)
  /\ Len(frame_sizes) = IF frames_sent <= 100 THEN frames_sent ELSE 100
  /\ (frame_sizes = <<>>) <=> (frames_sent = 0)
  /\ (frame_times = <<>>) <=> (sent_log = <<>>)
  /\ ret.op = "get_metrics" => (ret.val.empty <=> (sent_log = <<>>))

\* the counter has passed the capacity of the buffers, which stay at it, and
\* get_metrics has answered
C22_Witness ==
  /\ frames_sent = 101
  /\ Len(frame_sizes) = 100 /\ Len(compression_rates) = 100 /\ Len(frame_times) = 100
  /\ ret.op = "get_metrics" /\ ~ret.val.empty

\* C23: whenever is_running is true the capture is open and a socket that is
\* not closed is held; whenever it is false, and so after a start that
\* returned False and after a stop, no open capture and no socket is held and
\* every socket the client created is closed; and process_frame called while
\* not running returns failure and changes nothing else: no frame is read and
\* the socket is not touched.  A capture that did not open holds no device;
\* the handle counts as held when the capture is open.
C23_ResourcesFollowRunning ==
  /\ [](is_running => /\ cap = "opened"
                      /\ socket # None
                      /\ sockets[socket] # "closed")
  /\ [](~is_running => /\ cap # "opened"
                       /\ socket = None
                       /\ \A i \in DOMAIN sockets : sockets[i] = "closed")
  /\ [](app_ret.op = "start" => (app_ret.ok <=> is_running))
  /\ [](app_ret.op = "stop" => ~is_running)
  /\ [][ (~is_running /\ app_ret'.op = "process_frame")
         => /\ app_ret' = AppReturned("process_frame", FALSE, NoImage)
            /\ UNCHANGED <<config, socket, sockets, inbox, metrics, pc, locals, ret,
                           tried, sendto_log, sent_log, send_limit, is_running, cap,
                           cycle, frame, latest_predictions, latest_metrics, events,
                           had_backlog>> ]_vars

\* a client that ran a cycle and was stopped is started again: the capture
\* opens, the socket cannot be created, start returns False with the capture
\* released
C23_Witness ==
  /\ app_ret.op = "start" /\ ~app_ret.ok
  /\ ret.op = "connect" /\ ret.val = FALSE
  /\ ~is_running /\ cap = "None" /\ socket = None
  /\ frames_sent >= 1
  /\ sockets = <<"closed">>
====
